---- MODULE Spec2Model ----
(***************************************************************************)
(* The goal tracker as a state machine.                                    *)
(*                                                                         *)
(* The server (express, better-sqlite3, express-session and multer): the   *)
(* state is the four tables, the AUTOINCREMENT counters, the uploads       *)
(* directory, the session store and the wall clock.  better-sqlite3 is     *)
(* synchronous, so a handler's body runs to completion on the single       *)
(* JavaScript thread.  A handler is an operator (handleX) from the state   *)
(* and the request to the response and the tables it writes; the action X  *)
(* applies it.  Specification Spec takes every request as one step.        *)
(*                                                                         *)
(* Specification SpecRace splits PATCH /api/subtasks/:id at the one place  *)
(* where the event loop can run another request: multer's asynchronous     *)
(* parsing of the multipart body, between requireAuth and the handler.     *)
(*                                                                         *)
(* Specification SpecClient adds the React client (App.tsx): its `tasks`   *)
(* state and the calls of addTask, addSubtask, deleteTask and              *)
(* toggleSubtask that await a response.                                    *)
(*                                                                         *)
(* Specification SpecGallery applies GalleryView's grouping to the photo   *)
(* lists the client can hold.                                              *)
(***************************************************************************)
EXTENDS Integers, Sequences, FiniteSets, TLC

VARIABLES users, settings, tasks, subtasks, taskSeq, subSeq, uploads,
          session, now,
          \* PATCH requests between requireAuth and the handler, and the order served
          requests, served,
          \* the client's `tasks` state and its calls awaiting a response
          localTasks, calls,
          \* the client's `photos` state and what GalleryView renders from it
          photos, groupedPhotos, dates, rendered

server == <<users, settings, tasks, subtasks, taskSeq, subSeq, uploads,
            session, now>>
race == <<requests, served>>
client == <<localTasks, calls>>
gallery == <<photos, groupedPhotos, dates, rendered>>

vars == <<server, race, client, gallery>>

db == <<users, settings, tasks, subtasks, taskSeq, subSeq>>

(* ---------------------------- bounds ----------------------------------- *)

\* AUTOINCREMENT ids handed out per table, and uploaded files, and clock ticks.
MaxTasks == 2
MaxSubtasks == 2
MaxUploads == 2
MaxClock == 2

(* ---------------------------- values ----------------------------------- *)

\* JavaScript's undefined (a missing property, a missing session user).
Undefined == "undefined"
\* SQL NULL / JavaScript null in a column that otherwise holds a tuple.
NULL == <<>>

\* One browser session; a handler reads no session but the request's own.
Sessions == {"s1"}
GoogleIds == {"g1", "g2"}
Emails == {"e1", "e2"}
Names == {"n1"}
Pictures == {"p1"}
Titles == {"X"}
SubTitles == {"step1"}
\* The multipart `completed` field as the server receives it (a string, or absent).
Flags == {"true", "1", "false", Undefined}

TaskIds == 1..MaxTasks
SubtaskIds == 1..MaxSubtasks

\* The outcome of a fetch of the provider's userinfo endpoint followed by json():
\* kind "network" (fetch rejects), "malformed" (json() rejects) or "json" (a parsed
\* body, whose id, email, name and picture are read; a missing one is undefined).
NoBody(kind) == [kind |-> kind, id |-> Undefined, email |-> Undefined,
                 name |-> Undefined, picture |-> Undefined]
\* A profile of the provider; the email may be withheld.
Profiles == [kind : {"json"}, id : GoogleIds, email : Emails \cup {Undefined},
             name : Names, picture : Pictures]

(* ---------------------------- helpers ---------------------------------- *)

\* new Date().toISOString() at clock reading t.
toISOString(t) == <<"iso", t>>

\* `/uploads/${req.file.filename}`
uploadUrl(f) == <<"/uploads/", f>>

\* multer's diskStorage filename: Date.now() + "-" + random, never an existing name.
newFilename == Cardinality(uploads) + 1

\* SQLite's ordering of a DATETIME column: NULL sorts below every value.
timeKey(v) == IF v = NULL THEN 0 ELSE v[2]

\* Every result of SELECT ... ORDER BY key DESC over the rows in key's domain: rows
\* with equal keys come in an order SQL leaves open.
OrderByDesc(key) ==
  LET S == DOMAIN key
      n == Cardinality(S)
  IN { q \in [1..n -> S] :
         /\ \A i, j \in 1..n : i # j => q[i] # q[j]
         /\ \A i, j \in 1..n : i < j => key[q[i]] >= key[q[j]] }

\* SELECT without ORDER BY: a scan of the rowid b-tree, ascending id.
RECURSIVE ByRowid(_)
ByRowid(S) ==
  IF S = {} THEN <<>>
  ELSE LET r == CHOOSE x \in S : \A y \in S : x.id <= y.id
       IN <<r>> \o ByRowid(S \ {r})

(* ---------------------------- initial state ---------------------------- *)

InitServer ==
  /\ users = {}
  /\ settings = [ads_removed |-> "false"]
  /\ tasks = {}
  /\ subtasks = {}
  /\ taskSeq = 0
  /\ subSeq = 0
  /\ uploads = {}
  /\ session = [s \in Sessions |-> Undefined]
  /\ now = 1

\* No PATCH in flight.
InitRace ==
  /\ requests = <<>>
  /\ served = <<>>

\* useState<Task[]>([]), and no call made.
InitClient ==
  /\ localTasks = <<>>
  /\ calls = <<>>

\* useState<PhotoEntry[]>([]), and the gallery tab not rendered.
InitGallery ==
  /\ photos = <<>>
  /\ groupedPhotos = <<>>
  /\ dates = <<>>
  /\ rendered = FALSE

Init == InitServer /\ InitRace /\ InitClient /\ InitGallery

(* ---------------------------- middleware ------------------------------- *)

\* A requireAuth that lets every request through.
requireAuthOpen(s) == TRUE

\* requireAuth: next() is called only when the session carries a user.
requireAuth(s) == session[s] # Undefined

\* upload.single("photo") stores the attached file before the handler runs.
uploadSingle(hasFile) ==
  IF hasFile THEN uploads \cup {newFilename} ELSE uploads

(* ---------------------------- identity --------------------------------- *)

\* A driver that binds undefined like any other value.
BindsAnything(v) == TRUE

\* better-sqlite3 binds numbers, strings, bigints, buffers and null; undefined throws.
Bindable(v) == v # Undefined

\* INSERT OR REPLACE in place of the upsert: the row is written anew.
InsertOrReplace(p) ==
  IF p.id = Undefined \/ p.email = Undefined
       \/ \E u \in users : u.id # p.id /\ u.email = p.email
  THEN [throws |-> TRUE, rows |-> users]
  ELSE [throws |-> FALSE,
        rows |-> {u \in users : u.id # p.id}
                   \cup {[id |-> p.id, email |-> p.email, name |-> p.name,
                          picture |-> p.picture, ads_removed |-> 0]}]

\* The upsert statement: whether it throws, and the users table after it.
Upsert(p) ==
  IF ~(Bindable(p.id) /\ Bindable(p.email) /\ Bindable(p.name) /\ Bindable(p.picture))
  THEN [throws |-> TRUE, rows |-> users]
  ELSE IF \E u \in users : u.id # p.id /\ u.email = p.email
  THEN [throws |-> TRUE, rows |-> users]   \* email TEXT UNIQUE
  ELSE IF \E u \in users : u.id = p.id
  THEN [throws |-> FALSE,
        rows |-> { IF u.id = p.id
                   THEN [u EXCEPT !.email = p.email, !.name = p.name,
                                  !.picture = p.picture]
                   ELSE u : u \in users }]
  ELSE [throws |-> FALSE,
        rows |-> users \cup {[id |-> p.id, email |-> p.email, name |-> p.name,
                              picture |-> p.picture, ads_removed |-> 0]}]

\* The catch block: res.redirect("/auth-error").
AuthError(s) ==
  [status |-> 302, body |-> "/auth-error", users |-> users, user |-> session[s],
   fetches |-> 0]

\* GET /api/auth/google/callback.  token is the outcome of the token exchange:
\* "network" (fetch rejects), "malformed" (json() rejects), "error" (a JSON body
\* without access_token) or "ok"; profile is the outcome of the userinfo fetch.
\* The result's user is req.session.user afterwards, fetches the number of
\* requests made to the provider.
handleCallback(s, token, profile) ==
  IF token \in {"network", "malformed"} THEN [AuthError(s) EXCEPT !.fetches = 1]
  ELSE IF profile.kind \in {"network", "malformed"}
  THEN [AuthError(s) EXCEPT !.fetches = 2]
  ELSE IF Upsert(profile).throws THEN [AuthError(s) EXCEPT !.fetches = 2]
  ELSE [status |-> 200, body |-> "OAUTH_AUTH_SUCCESS", users |-> Upsert(profile).rows,
        user |-> profile.id, fetches |-> 2]

Callback(s, token, profile) ==
  LET r == handleCallback(s, token, profile) IN
  /\ users' = r.users
  /\ session' = [session EXCEPT ![s] = r.user]
  /\ UNCHANGED <<settings, tasks, subtasks, taskSeq, subSeq, uploads, now,
               race, client, gallery>>

\* What the userinfo fetch can yield: the provider answers with a profile only for
\* an access token it issued, and with an error body (no id) otherwise.
ProfileOutcomes(token) ==
  {NoBody("network"), NoBody("malformed"), NoBody("json")}
    \cup (IF token = "ok" THEN Profiles ELSE {})

\* GET /api/auth/me: the user's row (no row, or no session user: null).
handleMe(s) ==
  [status |-> 200,
   body |-> IF session[s] # Undefined THEN {u \in users : u.id = session[s]} ELSE {}]

Me(s) ==
  /\ handleMe(s).status = 200
  /\ UNCHANGED vars

\* POST /api/auth/logout
handleLogout(s) == [status |-> 200, body |-> "success", user |-> Undefined]

Logout(s) ==
  /\ session' = [session EXCEPT ![s] = handleLogout(s).user]
  /\ UNCHANGED <<db, uploads, now,
               race, client, gallery>>

(* ---------------------------- settings --------------------------------- *)

\* GET /api/settings; the body is adsRemoved.
handleGetSettings(s) ==
  [status |-> 200,
   body |-> IF session[s] # Undefined
            THEN \E u \in users : u.id = session[s] /\ u.ads_removed = 1
            ELSE settings.ads_removed = "true"]

GetSettings(s) ==
  /\ handleGetSettings(s).status = 200
  /\ UNCHANGED vars

\* The UPDATE without its WHERE clause.
handleRemoveAdsAll(s) ==
  IF session[s] = Undefined
  THEN [status |-> 401, body |-> "Unauthorized", users |-> users]
  ELSE [status |-> 200, body |-> "success",
        users |-> {[u EXCEPT !.ads_removed = 1] : u \in users}]

\* POST /api/settings/remove-ads
handleRemoveAds(s) ==
  IF ~requireAuth(s) THEN [status |-> 401, body |-> "Unauthorized", users |-> users]
  ELSE [status |-> 200, body |-> "success",
        users |-> { IF u.id = session[s] THEN [u EXCEPT !.ads_removed = 1] ELSE u
                    : u \in users }]

RemoveAds(s) ==
  /\ users' = handleRemoveAds(s).users
  /\ UNCHANGED <<settings, tasks, subtasks, taskSeq, subSeq, uploads, session, now,
               race, client, gallery>>

(* ---------------------------- tasks ------------------------------------ *)

\* SELECT * FROM subtasks WHERE task_id = ?
SubtasksOf(stTbl, tid) == ByRowid({st \in stTbl : st.task_id = tid})

\* The results of GET /api/tasks' queries over the tables tTbl and stTbl.
SelectTasks(tTbl, stTbl, uid) ==
  { [i \in DOMAIN rows |->
       [id |-> rows[i].id, user_id |-> rows[i].user_id, title |-> rows[i].title,
        created_at |-> rows[i].created_at, subtasks |-> SubtasksOf(stTbl, rows[i].id)]]
    : rows \in OrderByDesc([t \in {x \in tTbl : x.user_id = uid} |-> t.created_at]) }

\* GET /api/tasks; bodies are the bodies the response may have.
handleGetTasks(s) ==
  IF ~requireAuth(s) THEN [status |-> 401, bodies |-> {"Unauthorized"}]
  ELSE [status |-> 200, bodies |-> SelectTasks(tasks, subtasks, session[s])]

GetTasks(s) ==
  /\ handleGetTasks(s).bodies # {}
  /\ UNCHANGED vars

\* POST /api/tasks
handlePostTask(s, title) ==
  IF ~requireAuth(s)
  THEN [status |-> 401, body |-> "Unauthorized", tasks |-> tasks, taskSeq |-> taskSeq]
  ELSE [status |-> 200,
        body |-> [id |-> taskSeq + 1, title |-> title, subtasks |-> <<>>],
        tasks |-> tasks \cup {[id |-> taskSeq + 1, user_id |-> session[s],
                               title |-> title, created_at |-> now]},
        taskSeq |-> taskSeq + 1]

PostTask(s, title) ==
  LET r == handlePostTask(s, title) IN
  /\ r.taskSeq <= MaxTasks
  /\ tasks' = r.tasks
  /\ taskSeq' = r.taskSeq
  /\ UNCHANGED <<users, settings, subtasks, subSeq, uploads, session, now,
               race, client, gallery>>

\* The lookup without its user_id filter.
AnyTask(id, uid) == {t \in tasks : t.id = id}

\* SELECT * FROM tasks WHERE id = ? AND user_id = ?
OwnedTask(id, uid) == {t \in tasks : t.id = id /\ t.user_id = uid}

\* The DELETE with foreign keys not enforced: the subtasks stay.
DeleteNoCascade(id) == subtasks

\* DELETE FROM tasks WHERE id = ?, with the subtasks' ON DELETE CASCADE.
DeleteCascade(id) == {st \in subtasks : st.task_id # id}

\* DELETE /api/tasks/:id
handleDeleteTask(s, id) ==
  IF ~requireAuth(s)
  THEN [status |-> 401, body |-> "Unauthorized", tasks |-> tasks, subtasks |-> subtasks]
  ELSE IF OwnedTask(id, session[s]) = {}
  THEN [status |-> 403, body |-> "Forbidden", tasks |-> tasks, subtasks |-> subtasks]
  ELSE [status |-> 200, body |-> "success",
        tasks |-> {t \in tasks : t.id # id}, subtasks |-> DeleteCascade(id)]

DeleteTask(s, id) ==
  LET r == handleDeleteTask(s, id) IN
  /\ tasks' = r.tasks
  /\ subtasks' = r.subtasks
  /\ UNCHANGED <<users, settings, taskSeq, subSeq, uploads, session, now,
               race, client, gallery>>

\* POST /api/tasks/:id/subtasks
handlePostSubtask(s, id, title) ==
  IF ~requireAuth(s)
  THEN [status |-> 401, body |-> "Unauthorized", subtasks |-> subtasks,
        subSeq |-> subSeq]
  ELSE IF OwnedTask(id, session[s]) = {}
  THEN [status |-> 403, body |-> "Forbidden", subtasks |-> subtasks, subSeq |-> subSeq]
  ELSE [status |-> 200,
        body |-> [id |-> subSeq + 1, task_id |-> id, title |-> title, completed |-> 0],
        subtasks |-> subtasks \cup {[id |-> subSeq + 1, task_id |-> id, title |-> title,
                                     completed |-> 0, photo_url |-> NULL,
                                     completed_at |-> NULL]},
        subSeq |-> subSeq + 1]

PostSubtask(s, id, title) ==
  LET r == handlePostSubtask(s, id, title) IN
  /\ r.subSeq <= MaxSubtasks
  /\ subtasks' = r.subtasks
  /\ subSeq' = r.subSeq
  /\ UNCHANGED <<users, settings, tasks, taskSeq, uploads, session, now,
               race, client, gallery>>

(* ---------------------------- subtasks --------------------------------- *)

\* SELECT subtasks.* FROM subtasks JOIN tasks ... WHERE subtasks.id = ? AND tasks.user_id = ?
OwnedSubtask(id, uid) ==
  {st \in subtasks : st.id = id /\ \E t \in tasks : t.id = st.task_id /\ t.user_id = uid}

\* The test with its second alternative left out.
isTrueWord(completed) == completed = "true"

\* completed === "true" || completed === "1"
isTrue(completed) == completed = "true" \/ completed = "1"

\* UPDATE statements that keep a completed_at the row already has
\* (completed_at = COALESCE(completed_at, ?)).
UpdateKeepsCompletedAt(st, completed, photoUrl) ==
  LET completedAt == IF ~isTrue(completed) THEN NULL
                     ELSE IF st.completed_at # NULL THEN st.completed_at
                     ELSE toISOString(now)
  IN IF photoUrl # NULL
     THEN [st EXCEPT !.completed = 1, !.photo_url = photoUrl,
                     !.completed_at = completedAt]
     ELSE [st EXCEPT !.completed = IF isTrue(completed) THEN 1 ELSE 0,
                     !.completed_at = completedAt]

\* One UPDATE for both cases, binding photoUrl (null without a file) every time.
UpdateWritesPhotoUrl(st, completed, photoUrl) ==
  [st EXCEPT !.completed = IF photoUrl # NULL \/ isTrue(completed) THEN 1 ELSE 0,
             !.photo_url = photoUrl,
             !.completed_at = IF isTrue(completed) THEN toISOString(now) ELSE NULL]

\* The two UPDATE statements of PATCH /api/subtasks/:id, on the row they select.
UpdateSubtask(st, completed, photoUrl) ==
  LET completedAt == IF isTrue(completed) THEN toISOString(now) ELSE NULL IN
  IF photoUrl # NULL
  THEN [st EXCEPT !.completed = 1, !.photo_url = photoUrl, !.completed_at = completedAt]
  ELSE [st EXCEPT !.completed = IF isTrue(completed) THEN 1 ELSE 0,
                  !.completed_at = completedAt]

\* The handler of PATCH /api/subtasks/:id (lines 242-266) for the user uid of
\* req.session, once multer has stored the file; the body is the result of the
\* final SELECT.  Nothing in it awaits, so it runs as one step.
patchHandler(uid, id, completed, hasFile) ==
  IF OwnedSubtask(id, uid) = {}
  THEN [status |-> 403, body |-> "Forbidden", subtasks |-> subtasks,
        uploads |-> uploadSingle(hasFile)]
  ELSE LET photoUrl == IF hasFile THEN uploadUrl(newFilename) ELSE NULL
           new == { IF st.id = id THEN UpdateSubtask(st, completed, photoUrl) ELSE st
                    : st \in subtasks }
       IN [status |-> 200, body |-> {st \in new : st.id = id}, subtasks |-> new,
           uploads |-> uploadSingle(hasFile)]

\* PATCH /api/subtasks/:id, requireAuth and multer included.
handlePatchSubtask(s, id, completed, hasFile) ==
  IF ~requireAuth(s)
  THEN [status |-> 401, body |-> "Unauthorized", subtasks |-> subtasks,
        uploads |-> uploads]
  ELSE patchHandler(session[s], id, completed, hasFile)

PatchSubtask(s, id, completed, hasFile) ==
  LET r == handlePatchSubtask(s, id, completed, hasFile) IN
  /\ Cardinality(r.uploads) <= MaxUploads
  /\ subtasks' = r.subtasks
  /\ uploads' = r.uploads
  /\ UNCHANGED <<users, settings, tasks, taskSeq, subSeq, session, now,
               race, client, gallery>>

\* The query without its user_id filter.
SelectAllPhotos(tTbl, stTbl, uid) ==
  OrderByDesc([r \in { [st |-> p[1], task_title |-> p[2].title] :
                         p \in { q \in stTbl \X tTbl : /\ q[1].task_id = q[2].id
                                                      /\ q[1].photo_url # NULL } }
                 |-> timeKey(r.st.completed_at)])

\* The results of GET /api/photos' query over the tables.
SelectPhotos(tTbl, stTbl, uid) ==
  OrderByDesc([r \in { [st |-> p[1], task_title |-> p[2].title] :
                         p \in { q \in stTbl \X tTbl : /\ q[1].task_id = q[2].id
                                                      /\ q[2].user_id = uid
                                                      /\ q[1].photo_url # NULL } }
                 |-> timeKey(r.st.completed_at)])

\* GET /api/photos; bodies are the bodies the response may have.
handleGetPhotos(s) ==
  IF ~requireAuth(s) THEN [status |-> 401, bodies |-> {"Unauthorized"}]
  ELSE [status |-> 200, bodies |-> SelectPhotos(tasks, subtasks, session[s])]

GetPhotos(s) ==
  /\ handleGetPhotos(s).bodies # {}
  /\ UNCHANGED vars

(* ---------------------------- clock ------------------------------------ *)

\* The wall clock advances (one unit is a second, CURRENT_TIMESTAMP's resolution).
Tick ==
  /\ now < MaxClock
  /\ now' = now + 1
  /\ UNCHANGED <<db, uploads, session,
               race, client, gallery>>

(* ---------------------------- specification ---------------------------- *)

\* The server alone: every request is one step, the client is not modelled.
Next ==
  \/ \E s \in Sessions, token \in {"ok", "error", "network", "malformed"} :
       \E profile \in ProfileOutcomes(token) : Callback(s, token, profile)
  \/ \E s \in Sessions : Me(s)
  \/ \E s \in Sessions : Logout(s)
  \/ \E s \in Sessions : GetSettings(s)
  \/ \E s \in Sessions : RemoveAds(s)
  \/ \E s \in Sessions : GetTasks(s)
  \/ \E s \in Sessions, title \in Titles : PostTask(s, title)
  \/ \E s \in Sessions, id \in TaskIds : DeleteTask(s, id)
  \/ \E s \in Sessions, id \in TaskIds, title \in SubTitles : PostSubtask(s, id, title)
  \/ \E s \in Sessions, id \in SubtaskIds, completed \in Flags, hasFile \in BOOLEAN :
       PatchSubtask(s, id, completed, hasFile)
  \/ \E s \in Sessions : GetPhotos(s)
  \/ Tick

Spec == Init /\ [][Next]_vars

(* ---------------------------- concurrent PATCH ------------------------- *)

\* PATCH requests sent in a run.
MaxRequests == 2

\* A PATCH /api/subtasks/:id arrives.  express-session loads req.session,
\* requireAuth answers 401 without a user, and otherwise multer starts to read
\* the multipart body: the event loop is free to run other requests until the
\* body has been read.
PatchArrives(s, id, completed, hasFile) ==
  /\ Len(requests) < MaxRequests
  /\ IF ~requireAuth(s) THEN UNCHANGED requests
     ELSE requests' = Append(requests, [user |-> session[s], id |-> id,
                                        completed |-> completed, hasFile |-> hasFile,
                                        status |-> 0, rows |-> {}])
  /\ UNCHANGED <<server, served, client, gallery>>

\* multer has read the body of request i and stored its file, and calls the
\* handler, which answers: status and, for a 200, the row of the final SELECT.
PatchHandled(i) ==
  LET req == requests[i]
      r == patchHandler(req.user, req.id, req.completed, req.hasFile)
  IN /\ req.status = 0
     /\ Cardinality(r.uploads) <= MaxUploads
     /\ subtasks' = r.subtasks
     /\ uploads' = r.uploads
     /\ requests' = [requests EXCEPT ![i].status = r.status,
                                     ![i].rows = IF r.status = 200 THEN r.body ELSE {}]
     /\ served' = Append(served, i)
     /\ UNCHANGED <<users, settings, tasks, taskSeq, subSeq, session, now,
                    client, gallery>>

\* The one user who logs in while PATCH requests race.
RaceProfiles == {p \in Profiles : p.id = "g1" /\ p.email = "e1"}

NextRace ==
  \/ \E s \in Sessions, profile \in RaceProfiles : Callback(s, "ok", profile)
  \/ \E s \in Sessions : Logout(s)
  \/ \E s \in Sessions, title \in Titles : PostTask(s, title)
  \/ \E s \in Sessions, id \in TaskIds : DeleteTask(s, id)
  \/ \E s \in Sessions, id \in TaskIds, title \in SubTitles : PostSubtask(s, id, title)
  \/ \E s \in Sessions, id \in SubtaskIds, completed \in Flags, hasFile \in BOOLEAN :
       PatchArrives(s, id, completed, hasFile)
  \/ \E i \in DOMAIN requests : PatchHandled(i)
  \/ Tick

SpecRace == Init /\ [][NextRace]_vars

(* ---------------------------- client (App.tsx) ------------------------- *)

\* Calls of addTask, addSubtask, deleteTask and toggleSubtask in a run.
MaxCalls == 4

\* The session of the browser the client runs in.
Browser == CHOOSE s \in Sessions : TRUE

\* await res.json(): the parsed body.  The server sends an object for a 200 and
\* { error } otherwise; the client reads it without looking at res.ok.
json(status, body) == IF status = 200 THEN body ELSE [error |-> body]

\* An object with an id: a task or a subtask, not an error body.
HasId(o) == "id" \in DOMAIN o

\* The ids of the task cards on screen.
CardIds == {localTasks[k].id : k \in {j \in DOMAIN localTasks : HasId(localTasks[j])}}

\* The subtasks on screen whose button and camera input are live:
\* isCompleted = completed === 1 || completed === true is false.
OpenItemIds ==
  UNION { {t.subtasks[j].id : j \in {i \in DOMAIN t.subtasks :
                                       /\ HasId(t.subtasks[i])
                                       /\ t.subtasks[i].completed # 1}}
          : t \in {localTasks[k] : k \in {j \in DOMAIN localTasks : HasId(localTasks[j])}} }

\* A call up to its `await fetch(...)`: the request is sent and the rest of the
\* function waits, holding the `tasks` of the render the function was made in.
Awaiting(op, taskId, subtaskId, title, hasFile) ==
  [op |-> op, taskId |-> taskId, subtaskId |-> subtaskId, title |-> title,
   hasFile |-> hasFile, tasks |-> localTasks, stage |-> "sent", body |-> <<>>]

\* addTask: POST /api/tasks with the title typed (an empty title returns early).
addTask(title) ==
  /\ Len(calls) < MaxCalls
  /\ calls' = Append(calls, Awaiting("addTask", 0, 0, title, FALSE))
  /\ UNCHANGED <<server, race, localTasks, gallery>>

\* addSubtask(taskId, title), from a task card's form.
addSubtask(taskId, title) ==
  /\ Len(calls) < MaxCalls
  /\ taskId \in CardIds
  /\ calls' = Append(calls, Awaiting("addSubtask", taskId, 0, title, FALSE))
  /\ UNCHANGED <<server, race, localTasks, gallery>>

\* deleteTask(taskId), from a task card's bin.
deleteTask(taskId) ==
  /\ Len(calls) < MaxCalls
  /\ taskId \in CardIds
  /\ calls' = Append(calls, Awaiting("deleteTask", taskId, 0, "", FALSE))
  /\ UNCHANGED <<server, race, localTasks, gallery>>

\* toggleSubtask(subtaskId, true, file?), from an open subtask's button (no file)
\* or camera input (a file): completed.toString() is "true".
toggleSubtask(subtaskId, hasFile) ==
  /\ Len(calls) < MaxCalls
  /\ subtaskId \in OpenItemIds
  /\ calls' = Append(calls, Awaiting("toggleSubtask", 0, subtaskId, "", hasFile))
  /\ UNCHANGED <<server, race, localTasks, gallery>>

\* The server handles the request of call i and answers.
Responds(i) ==
  LET c == calls[i] IN
  /\ c.stage = "sent"
  /\ CASE c.op = "addTask" ->
            LET r == handlePostTask(Browser, c.title) IN
            /\ r.taskSeq <= MaxTasks
            /\ tasks' = r.tasks
            /\ taskSeq' = r.taskSeq
            /\ calls' = [calls EXCEPT ![i].stage = "answered",
                                      ![i].body = json(r.status, r.body)]
            /\ UNCHANGED <<subtasks, subSeq, uploads>>
       [] c.op = "addSubtask" ->
            LET r == handlePostSubtask(Browser, c.taskId, c.title) IN
            /\ r.subSeq <= MaxSubtasks
            /\ subtasks' = r.subtasks
            /\ subSeq' = r.subSeq
            /\ calls' = [calls EXCEPT ![i].stage = "answered",
                                      ![i].body = json(r.status, r.body)]
            /\ UNCHANGED <<tasks, taskSeq, uploads>>
       [] c.op = "deleteTask" ->
            LET r == handleDeleteTask(Browser, c.taskId) IN
            /\ tasks' = r.tasks
            /\ subtasks' = r.subtasks
            /\ calls' = [calls EXCEPT ![i].stage = "answered"]
            /\ UNCHANGED <<taskSeq, subSeq, uploads>>
       [] c.op = "toggleSubtask" ->
            LET r == handlePatchSubtask(Browser, c.subtaskId, "true", c.hasFile) IN
            /\ Cardinality(r.uploads) <= MaxUploads
            /\ subtasks' = r.subtasks
            /\ uploads' = r.uploads
            /\ calls' = [calls EXCEPT
                   ![i].stage = "answered",
                   ![i].body = IF r.status = 200 THEN CHOOSE row \in r.body : TRUE
                               ELSE json(r.status, r.body)]
            /\ UNCHANGED <<tasks, taskSeq, subSeq>>
  /\ UNCHANGED <<users, settings, session, now, race, localTasks, gallery>>

\* tasks.filter(t => t.id !== taskId)
RECURSIVE filterOut(_, _)
filterOut(list, taskId) ==
  IF list = <<>> THEN <<>>
  ELSE IF HasId(Head(list)) /\ Head(list).id = taskId THEN filterOut(Tail(list), taskId)
  ELSE <<Head(list)>> \o filterOut(Tail(list), taskId)

\* What the rest of the function passes to setTasks: the `tasks` of its closure,
\* patched with the parsed body.  toggleSubtask maps over t.subtasks of every
\* element; on an element that is an error body that throws, the catch block
\* logs, and the state stays as it is.
setTasksArg(c) ==
  CASE c.op = "addTask" -> <<c.body>> \o c.tasks
    [] c.op = "addSubtask" ->
         [k \in DOMAIN c.tasks |->
            IF HasId(c.tasks[k]) /\ c.tasks[k].id = c.taskId
            THEN [c.tasks[k] EXCEPT !.subtasks = Append(@, c.body)]
            ELSE c.tasks[k]]
    [] c.op = "deleteTask" -> filterOut(c.tasks, c.taskId)
    [] c.op = "toggleSubtask" ->
         IF \E k \in DOMAIN c.tasks : ~HasId(c.tasks[k]) THEN localTasks
         ELSE [k \in DOMAIN c.tasks |->
                 [c.tasks[k] EXCEPT !.subtasks =
                    [j \in DOMAIN @ |->
                       IF HasId(@[j]) /\ @[j].id = c.subtaskId THEN c.body ELSE @[j]]]]

\* The response of call i has arrived: the function resumes after its awaits and
\* calls setTasks.
Resumes(i) ==
  /\ calls[i].stage = "answered"
  /\ localTasks' = setTasksArg(calls[i])
  /\ calls' = [calls EXCEPT ![i].stage = "applied"]
  /\ UNCHANGED <<server, race, gallery>>

\* The client of one user, whose session can begin and end at any time.
NextClient ==
  \/ \E profile \in RaceProfiles : Callback(Browser, "ok", profile)
  \/ Logout(Browser)
  \/ \E title \in Titles : addTask(title)
  \/ \E taskId \in TaskIds, title \in SubTitles : addSubtask(taskId, title)
  \/ \E taskId \in TaskIds : deleteTask(taskId)
  \/ \E subtaskId \in SubtaskIds, hasFile \in BOOLEAN : toggleSubtask(subtaskId, hasFile)
  \/ \E i \in DOMAIN calls : Responds(i)
  \/ \E i \in DOMAIN calls : Resumes(i)

SpecClient == Init /\ [][NextClient]_vars

(* ---------------------------- gallery (App.tsx) ------------------------ *)

\* Photos in the client's list, clock readings a completed_at can hold, and
\* clock readings per calendar day.
MaxPhotos == 3
MaxStamp == 4
DayLength == 2

\* new Date(completed_at || "").toLocaleDateString(undefined, {year, month, day}):
\* the calendar day the instant falls on, written out; a null completed_at gives
\* new Date(""), an invalid Date, which is written "Invalid Date".
toLocaleDateString(completed_at) ==
  IF completed_at = NULL THEN <<"Invalid Date">>
  ELSE <<"date", completed_at[2] \div DayLength>>

\* The rows of a GET /api/photos response as the gallery reads them.
PhotoEntries ==
  [id : 1..MaxPhotos, completed_at : {NULL} \cup {toISOString(t) : t \in 1..MaxStamp}]

\* The lists setPhotos can receive: rows with distinct ids, in the order of the
\* query (completed_at descending, NULL last, ties in any order).
PhotoLists ==
  UNION { { q \in [1..n -> PhotoEntries] :
              /\ \A i, j \in 1..n : i # j => q[i].id # q[j].id
              /\ \A i, j \in 1..n :
                   i < j => timeKey(q[i].completed_at) >= timeKey(q[j].completed_at) }
          : n \in 0..MaxPhotos }

\* A reducer that assigns a fresh array to acc[date] for every photo.
reducerAssigns(acc, photo) ==
  LET date == toLocaleDateString(photo.completed_at)
      keyed == IF \E i \in DOMAIN acc : acc[i].key = date THEN acc
               ELSE Append(acc, [key |-> date, value |-> <<>>])
  IN [i \in DOMAIN keyed |->
        IF keyed[i].key = date THEN [keyed[i] EXCEPT !.value = <<photo>>] ELSE keyed[i]]

\* The callback of photos.reduce.  The object acc is the sequence of its
\* properties in creation order: `if (!acc[date]) acc[date] = []` adds a property
\* at the end, `acc[date].push(photo)` appends to that property's array.
reducer(acc, photo) ==
  LET date == toLocaleDateString(photo.completed_at)
      keyed == IF \E i \in DOMAIN acc : acc[i].key = date THEN acc
               ELSE Append(acc, [key |-> date, value |-> <<>>])
  IN [i \in DOMAIN keyed |->
        IF keyed[i].key = date THEN [keyed[i] EXCEPT !.value = Append(@, photo)]
        ELSE keyed[i]]

\* list.reduce(reducer, acc)
RECURSIVE reduce(_, _)
reduce(list, acc) ==
  IF list = <<>> THEN acc ELSE reduce(Tail(list), reducer(acc, Head(list)))

\* Object.keys: the string keys that are no array indices, in creation order.
ObjectKeys(obj) == [i \in DOMAIN obj |-> obj[i].key]

\* GalleryView renders the photos it is given.
GalleryView ==
  /\ ~rendered
  /\ groupedPhotos' = reduce(photos, <<>>)
  /\ dates' = ObjectKeys(groupedPhotos')
  /\ rendered' = TRUE
  /\ UNCHANGED <<server, race, client, photos>>

\* The gallery tab over every list the client can hold.
InitLists ==
  /\ InitServer /\ InitRace /\ InitClient
  /\ photos \in PhotoLists
  /\ groupedPhotos = <<>>
  /\ dates = <<>>
  /\ rendered = FALSE

NextGallery == GalleryView

SpecGallery == InitLists /\ [][NextGallery]_vars

(* ---------------------------- properties ------------------------------- *)

\* The owner of a subtask through the User -> Task -> Subtask chain.
OwnerOf(st) == {t.user_id : t \in {x \in tasks : x.id = st.task_id}}

OwnsTask(uid, id) == \E t \in tasks : t.id = id /\ t.user_id = uid
OwnsSubtask(uid, id) == \E st \in subtasks : st.id = id /\ uid \in OwnerOf(st)

\* Ids a request may name: the ids handed out so far and one never handed out.
AnyTaskId == 1..(taskSeq + 1)
AnySubtaskId == 1..(subSeq + 1)

\* C1: for a session user U and an id that is missing or not owned by U,
\* DELETE /api/tasks/:id, POST /api/tasks/:id/subtasks and PATCH /api/subtasks/:id
\* answer 403 Forbidden and leave every task and subtask row as it was; a missing
\* id and another user's id get the same answer.
ForbiddenLeavesRows ==
  \A s \in Sessions :
    session[s] # Undefined =>
      /\ \A id \in AnyTaskId :
           ~OwnsTask(session[s], id) =>
             /\ handleDeleteTask(s, id) =
                  [status |-> 403, body |-> "Forbidden", tasks |-> tasks,
                   subtasks |-> subtasks]
             /\ \A title \in SubTitles :
                  handlePostSubtask(s, id, title) =
                    [status |-> 403, body |-> "Forbidden", subtasks |-> subtasks,
                     subSeq |-> subSeq]
      /\ \A id \in AnySubtaskId :
           ~OwnsSubtask(session[s], id) =>
             \A completed \in Flags, hasFile \in BOOLEAN :
               LET r == handlePatchSubtask(s, id, completed, hasFile)
               IN r.status = 403 /\ r.body = "Forbidden" /\ r.subtasks = subtasks

\* A user is logged in while another user's task with a subtask and a deleted
\* task's id exist, and the requests naming them are answered 403.
ForbiddenReached ==
  \E s \in Sessions, t \in tasks, st \in subtasks :
    /\ session[s] # Undefined
    /\ t.user_id # session[s]
    /\ st.task_id = t.id
    /\ \E id \in 1..taskSeq : \A x \in tasks : x.id # id
    /\ handleDeleteTask(s, t.id).status = 403
    /\ handlePostSubtask(s, t.id, "step1").status = 403
    /\ handlePatchSubtask(s, st.id, "true", TRUE).status = 403

\* C2 (state part): every stored subtask's task_id names an existing task, its id
\* is one AUTOINCREMENT handed out, and the owner's DELETE removes the task and
\* exactly its subtasks.
CascadeInv ==
  /\ \A st \in subtasks : \E t \in tasks : t.id = st.task_id
  /\ \A st \in subtasks : st.id \in 1..subSeq
  /\ \A s \in Sessions, id \in AnyTaskId :
       (session[s] # Undefined /\ OwnsTask(session[s], id)) =>
         LET r == handleDeleteTask(s, id)
         IN /\ r.status = 200
            /\ r.tasks = {t \in tasks : t.id # id}
            /\ r.subtasks = {st \in subtasks : st.task_id # id}

\* C2 (step part): a subtask id that has left the table never comes back.
DeletedStayDeleted ==
  subtasks' # subtasks =>
    (\A id \in 1..subSeq :
       (\A st \in subtasks : st.id # id) => (\A st \in subtasks' : st.id # id))

\* C2: every stored subtask's task_id names an existing task; the owner's DELETE
\* removes the task with all of its subtasks, and no later request can reach one
\* of those subtask ids.
NoOrphanSubtasks == [](CascadeInv) /\ [][DeletedStayDeleted]_vars

\* A task that had subtasks has been deleted while other subtasks remain.
CascadeReached ==
  /\ \E id \in 1..taskSeq : \A t \in tasks : t.id # id
  /\ \E id \in 1..subSeq : \A st \in subtasks : st.id # id
  /\ subtasks # {}

\* The requests that requireAuth guards, as the status and the writes of each.
ProtectedOutcomes(s) ==
  {<<handleRemoveAds(s).status, handleRemoveAds(s).users = users>>,
   <<handleGetTasks(s).status, TRUE>>,
   <<handleGetPhotos(s).status, TRUE>>}
  \cup {<<handlePostTask(s, title).status,
          handlePostTask(s, title).tasks = tasks /\ handlePostTask(s, title).taskSeq = taskSeq>>
        : title \in Titles}
  \cup {<<handleDeleteTask(s, id).status,
          handleDeleteTask(s, id).tasks = tasks /\ handleDeleteTask(s, id).subtasks = subtasks>>
        : id \in AnyTaskId}
  \cup {<<handlePostSubtask(s, id, "step1").status,
          handlePostSubtask(s, id, "step1").subtasks = subtasks
            /\ handlePostSubtask(s, id, "step1").subSeq = subSeq>>
        : id \in AnyTaskId}
  \cup {<<handlePatchSubtask(s, a[1], a[2], a[3]).status,
          handlePatchSubtask(s, a[1], a[2], a[3]).subtasks = subtasks
            /\ handlePatchSubtask(s, a[1], a[2], a[3]).uploads = uploads>>
        : a \in AnySubtaskId \X Flags \X BOOLEAN}

\* C3: with no user in the session (never logged in, or logged out, once or many
\* times) every endpoint but the auth endpoints and GET /api/settings answers 401
\* and writes no user, task or subtask row and stores no uploaded file.
UnauthorizedWritesNothing ==
  \A s \in Sessions :
    /\ handleLogout(s).user = Undefined
    /\ session[s] = Undefined => ProtectedOutcomes(s) = {<<401, TRUE>>}

\* Logged out again after a login that left rows and files to protect.
UnauthorizedReached ==
  \E s \in Sessions :
    /\ session[s] = Undefined
    /\ users # {} /\ tasks # {} /\ subtasks # {}
    /\ handlePostTask(s, "X").status = 401
    /\ handlePatchSubtask(s, 1, "true", TRUE).status = 401

\* The row with the given id in a subtasks table.
RowOf(tbl, id) == CHOOSE st \in tbl : st.id = id

\* C4: PATCH /api/subtasks/:id with an attached image on an owned subtask, for
\* every value of the completion flag, leaves the subtask with completed = true,
\* photo_url the URL of the newly stored image, and a non-null completed_at, the
\* current time.
PatchWithImageCompletes ==
  \A s \in Sessions, st \in subtasks, completed \in Flags :
    (session[s] # Undefined /\ session[s] \in OwnerOf(st)) =>
      LET r == handlePatchSubtask(s, st.id, completed, TRUE)
          file == CHOOSE f \in r.uploads : f \notin uploads
      IN /\ r.status = 200
         /\ RowOf(r.subtasks, st.id).completed = 1
         /\ RowOf(r.subtasks, st.id).photo_url = <<"/uploads/", file>>
         /\ RowOf(r.subtasks, st.id).completed_at = <<"iso", now>>

\* The completion flags that request "completed".
Requested(completed) == completed \in {"true", "1"}

\* C5: PATCH /api/subtasks/:id without an image on an owned subtask sets completed
\* to the requested boolean and completed_at to non-null exactly when it is true,
\* touches nothing else of the row (a new subtask's photo_url is null and stays
\* null), leaves the other rows alone and answers with the updated row.
PatchWithoutImage ==
  /\ \A s \in Sessions, st \in subtasks, completed \in Flags :
       (session[s] # Undefined /\ session[s] \in OwnerOf(st)) =>
         LET r == handlePatchSubtask(s, st.id, completed, FALSE)
             row == RowOf(r.subtasks, st.id)
         IN /\ r.status = 200
            /\ row.completed = (IF Requested(completed) THEN 1 ELSE 0)
            /\ (row.completed_at # NULL) <=> Requested(completed)
            /\ Requested(completed) => row.completed_at = <<"iso", now>>
            /\ row.photo_url = st.photo_url
            /\ row.title = st.title /\ row.task_id = st.task_id
            /\ r.body = {row}
            /\ r.subtasks \ {row} = subtasks \ {st}
            /\ r.uploads = uploads
  /\ \A s \in Sessions, id \in AnyTaskId :
       (session[s] # Undefined /\ OwnsTask(session[s], id)) =>
         LET r == handlePostSubtask(s, id, "step1")
             row == RowOf(r.subtasks, r.subSeq)
         IN /\ r.status = 200
            /\ row.completed = 0 /\ row.photo_url = NULL /\ row.completed_at = NULL

\* A subtask that was completed without a photo, next to one left untouched.
PatchWithoutImageReached ==
  \E st \in subtasks, other \in subtasks :
    /\ st.completed = 1 /\ st.photo_url = NULL /\ st.completed_at # NULL
    /\ other.completed = 0 /\ other.task_id = st.task_id
    /\ \E s \in Sessions : session[s] \in OwnerOf(st)

\* C6: GET /api/tasks returns exactly the session user's tasks, newest first: the
\* list fetched after POST /api/tasks {title: X} starts with the new task, with
\* title X and no subtasks, whatever the user created before and however recently.
NewestTaskFirst ==
  \A s \in Sessions, title \in Titles :
    session[s] # Undefined =>
      LET r == handlePostTask(s, title)
      IN \A body \in SelectTasks(r.tasks, subtasks, session[s]) :
           /\ {body[i].id : i \in DOMAIN body}
                = {t.id : t \in {x \in r.tasks : x.user_id = session[s]}}
           /\ body[1].id = r.body.id
           /\ body[1].title = title
           /\ body[1].subtasks = <<>>

\* The subtask ids a GET /api/photos body lists.
Listed(body) == {body[i].st.id : i \in DOMAIN body}

\* The ids of the subtasks with a photo under a task of uid, in the given tables.
PhotoIds(tTbl, stTbl, uid) ==
  {st.id : st \in {x \in stTbl : /\ x.photo_url # NULL
                                 /\ \E t \in tTbl : t.id = x.task_id /\ t.user_id = uid}}

\* C7 (state part): GET /api/photos for session user U lists, once each, exactly
\* the subtasks under U's tasks that have a photo_url, with the task's title, and
\* a subtask PATCHed with an image is listed for its owner right after.
PhotosExact ==
  \A s \in Sessions :
    session[s] # Undefined =>
      /\ handleGetPhotos(s).status = 200
      /\ handleGetPhotos(s).bodies # {}
      /\ \A body \in handleGetPhotos(s).bodies :
           /\ Listed(body) = PhotoIds(tasks, subtasks, session[s])
           /\ Len(body) = Cardinality(Listed(body))
           /\ \A i \in DOMAIN body :
                /\ body[i].st \in subtasks
                /\ \E t \in tasks : /\ t.id = body[i].st.task_id
                                    /\ t.user_id = session[s]
                                    /\ t.title = body[i].task_title
      /\ \A id \in AnySubtaskId, completed \in Flags :
           OwnsSubtask(session[s], id) =>
             \A body \in SelectPhotos(tasks,
                                      handlePatchSubtask(s, id, completed, TRUE).subtasks,
                                      session[s]) :
               id \in Listed(body)

\* C7 (step part): a subtask with a photo keeps it, its task and its task's owner
\* for as long as it is stored, so it stays in its owner's list, and in nobody
\* else's, until its task is deleted.
PhotosStay ==
  (subtasks' # subtasks \/ tasks' # tasks) =>
    /\ \A st \in subtasks, st2 \in subtasks' :
         (st.id = st2.id /\ st.photo_url # NULL) =>
           st2.photo_url # NULL /\ st2.task_id = st.task_id
    /\ \A st \in subtasks :
         (\E t \in tasks' : t.id = st.task_id) => (\E st2 \in subtasks' : st2.id = st.id)
    /\ \A t \in tasks, t2 \in tasks' : t.id = t2.id => t.user_id = t2.user_id

\* C7: GET /api/photos returns exactly the session user's subtasks with a photo,
\* never another user's, and a subtask PATCHed with an image stays in its owner's
\* list until its task is deleted.
PhotosOfOwner == [](PhotosExact) /\ [][PhotosStay]_vars

\* A user is logged in who has a subtask with a photo since marked incomplete,
\* while another user has a subtask with a photo as well.
PhotosReached ==
  \E s \in Sessions, mine \in subtasks, theirs \in subtasks :
    /\ session[s] \in OwnerOf(mine) /\ mine.photo_url # NULL /\ mine.completed = 0
    /\ theirs.photo_url # NULL /\ session[s] \notin OwnerOf(theirs)
    /\ \A body \in handleGetPhotos(s).bodies : Listed(body) = {mine.id}

\* The ads_removed flag of the user's row.
AdsRemoved(tbl, uid) == \E u \in tbl : u.id = uid /\ u.ads_removed = 1

\* C8 (state part): GET /api/settings answers an authenticated user with that
\* user's own flag and an anonymous caller with the global setting; remove-ads sets
\* the caller's flag and nothing else, the same whether called once or twice.
SettingsExact ==
  /\ settings = [ads_removed |-> "false"]
  /\ \A s \in Sessions :
       /\ handleGetSettings(s).status = 200
       /\ session[s] = Undefined => handleGetSettings(s).body = (settings.ads_removed = "true")
       /\ session[s] # Undefined =>
            /\ handleGetSettings(s).body = AdsRemoved(users, session[s])
            /\ LET r == handleRemoveAds(s)
               IN /\ r.status = 200
                  /\ AdsRemoved(r.users, session[s])
                  /\ \A u \in GoogleIds \ {session[s]} :
                       AdsRemoved(r.users, u) = AdsRemoved(users, u)
                  /\ AdsRemoved(users, session[s]) => r.users = users

\* C8 (step part): a user's flag changes only from false to true, and only in a
\* step that is that user's remove-ads call; no step changes the global setting.
SettingsStep ==
  /\ settings' = settings
  /\ users' # users =>
       (\A u \in GoogleIds :
          AdsRemoved(users', u) # AdsRemoved(users, u) =>
            /\ ~AdsRemoved(users, u)
            /\ \E s \in Sessions : /\ session[s] = u
                                   /\ users' = handleRemoveAds(s).users
                                   /\ session' = session)

\* C8: GET /api/settings reports true to an authenticated user exactly when that
\* user has called remove-ads, whatever other users did, and the global value, which
\* no remove-ads call changes, to an anonymous caller.
SettingsPerUser == [](SettingsExact) /\ [][SettingsStep]_vars

\* One user removed ads, another did not, and both rows are there to be read.
SettingsReached ==
  \E s \in Sessions, u \in users, v \in users :
    /\ session[s] = v.id /\ v.ads_removed = 0 /\ u.ads_removed = 1
    /\ handleGetSettings(s).body = FALSE

\* The outcomes of the two provider requests that the claim calls a failure: a
\* request that fails, a body that does not parse, or a body without a user id.
FailedExchange(token, profile) ==
  \/ token \in {"network", "malformed"}
  \/ profile.kind \in {"network", "malformed"}
  \/ profile.id = "undefined"

\* C9: when the token exchange or the profile fetch fails, the callback redirects
\* to the error page, asks the provider no more than once for each, writes no user
\* row and leaves the session's user as it was.
FailedLoginChangesNothing ==
  \A s \in Sessions, token \in {"ok", "error", "network", "malformed"} :
    \A profile \in ProfileOutcomes(token) :
      FailedExchange(token, profile) =>
        LET r == handleCallback(s, token, profile)
        IN /\ r.status = 302 /\ r.body = "/auth-error"
           /\ r.fetches <= 2
           /\ r.users = users
           /\ r.user = session[s]

\* After a login and a logout, a callback whose exchange fails is redirected.
FailedLoginReached ==
  /\ users # {}
  /\ \E s \in Sessions :
       /\ handleCallback(s, "error", NoBody("json")).status = 302
       /\ handleCallback(s, "ok", NoBody("network")).status = 302
       /\ session[s] = Undefined

\* C10 (state part): a login that succeeds inserts one row with ads_removed false
\* for a new id, and for a known id overwrites the row's email, name and picture
\* and nothing else; either way one row per id, and the other rows as they were.
UpsertExact ==
  /\ \A u, v \in users : u.id = v.id => u = v
  /\ \A s \in Sessions, p \in Profiles :
       LET r == handleCallback(s, "ok", p)
           old == {u \in users : u.id = p.id}
           new == {u \in r.users : u.id = p.id}
       IN r.status = 200 =>
            /\ r.user = p.id
            /\ Cardinality(new) = 1
            /\ {u \in r.users : u.id # p.id} = {u \in users : u.id # p.id}
            /\ \A n \in new :
                 /\ n.email = p.email /\ n.name = p.name /\ n.picture = p.picture
                 /\ n.ads_removed = (IF old = {} THEN 0 ELSE (CHOOSE o \in old : TRUE).ads_removed)

\* C10 (step part): a step that writes a user's identity columns or adds a user
\* leaves every task and subtask as it was.
UpsertStep ==
  ({[id |-> u.id, email |-> u.email, name |-> u.name, picture |-> u.picture] : u \in users'}
    # {[id |-> u.id, email |-> u.email, name |-> u.name, picture |-> u.picture] : u \in users})
  => UNCHANGED <<tasks, subtasks, taskSeq, subSeq>>

\* C10: a successful login is an upsert keyed by the provider id that keeps the
\* user's ads_removed flag, tasks and subtasks.
LoginIsUpsert == [](UpsertExact) /\ [][UpsertStep]_vars

\* A user who removed ads and owns a task with a subtask is logged in again under
\* a changed email, the flag still set.
LoginAgainReached ==
  \E s \in Sessions, u \in users, t \in tasks, st \in subtasks :
    /\ session[s] = u.id /\ u.ads_removed = 1 /\ u.email = "e2" /\ u.id = "g1"
    /\ t.user_id = u.id /\ st.task_id = t.id
    /\ \E v \in users : v.id = "g2"

\* C12 (state part): the row POST /api/tasks/:id/subtasks inserts has a null
\* photo_url; a PATCH /api/subtasks/:id without an image, whatever its completion
\* flag and whoever sends it, leaves every row's photo_url as it was; and a
\* non-null photo_url is the URL of a stored upload.
PhotoUrlFrame ==
  /\ \A s \in Sessions, id \in AnyTaskId, title \in SubTitles :
       \A row \in handlePostSubtask(s, id, title).subtasks \ subtasks :
         row.photo_url = NULL
  /\ \A s \in Sessions, id \in AnySubtaskId, completed \in Flags :
       LET r == handlePatchSubtask(s, id, completed, FALSE) IN
       /\ {st.id : st \in r.subtasks} = {st.id : st \in subtasks}
       /\ \A st \in subtasks : RowOf(r.subtasks, st.id).photo_url = st.photo_url
  /\ \A st \in subtasks :
       st.photo_url # NULL => \E f \in uploads : st.photo_url = uploadUrl(f)

\* C12 (step part): a subtask enters the table with a null photo_url, and a step
\* that changes a subtask's photo_url is a successful PATCH /api/subtasks/:id of
\* that subtask with an image, which stores the image, points photo_url at it and
\* leaves the subtask completed.
PhotoUrlStep ==
  (subtasks' # subtasks) =>
    \A row \in subtasks' :
      IF \A st \in subtasks : st.id # row.id
      THEN row.photo_url = NULL
      ELSE (row.photo_url # RowOf(subtasks, row.id).photo_url) =>
             /\ row.completed = 1
             /\ row.photo_url = uploadUrl(newFilename)
             /\ \E s \in Sessions, completed \in Flags :
                  LET r == handlePatchSubtask(s, row.id, completed, TRUE) IN
                  /\ r.status = 200
                  /\ subtasks' = r.subtasks
                  /\ uploads' = r.uploads

\* C12: a subtask's photo_url is null when the subtask is created and changes
\* only through a PATCH /api/subtasks/:id that carries an image; a PATCH without
\* an image, also one that marks the subtask incomplete, leaves it unchanged, so
\* a non-null photo_url was written by a PATCH with an image that completed the
\* subtask.
PhotoUrlOnlyByImage == [](PhotoUrlFrame) /\ [][PhotoUrlStep]_vars

\* A subtask that was completed with an image and then marked incomplete by a
\* PATCH without one: it is not completed and still carries the photo.
PhotoKeptReached ==
  \E st \in subtasks, s \in Sessions :
    /\ st.completed = 0 /\ st.completed_at = NULL /\ st.photo_url # NULL
    /\ session[s] \in OwnerOf(st)

\* C14: in every reachable state, for every subtask, completed is true if and
\* only if completed_at is non-null.
CompletedIffCompletedAt ==
  \A st \in subtasks : (st.completed = 1) <=> (st.completed_at # NULL)

\* The index at which a date first occurs in the photo list.
FirstSeen(date) ==
  CHOOSE i \in DOMAIN photos :
    /\ toLocaleDateString(photos[i].completed_at) = date
    /\ \A j \in 1..(i - 1) : toLocaleDateString(photos[j].completed_at) # date

\* The places (group, index) at which the rendered gallery shows a photo.
PlacesOf(photo) ==
  { pl \in (DOMAIN groupedPhotos) \X (1..MaxPhotos) :
      /\ pl[2] \in DOMAIN groupedPhotos[pl[1]].value
      /\ groupedPhotos[pl[1]].value[pl[2]] = photo }

\* C11: for every photo list in the order of the query, the rendered grouping is
\* a partition: every photo of the list is shown at exactly one place, in the
\* group whose key is the calendar date of its own completed_at (the one group
\* "Invalid Date" for the photos without completed_at); every group holds photos
\* of the list only and at least one; and the headers are the groups' keys, each
\* once, in the order in which the dates first occur in the list.
GroupingIsPartition ==
  rendered =>
    /\ \A i \in DOMAIN photos :
         /\ Cardinality(PlacesOf(photos[i])) = 1
         /\ \A pl \in PlacesOf(photos[i]) :
              groupedPhotos[pl[1]].key = toLocaleDateString(photos[i].completed_at)
    /\ \A g \in DOMAIN groupedPhotos :
         /\ groupedPhotos[g].value # <<>>
         /\ \A k \in DOMAIN groupedPhotos[g].value :
              \E i \in DOMAIN photos : groupedPhotos[g].value[k] = photos[i]
    /\ DOMAIN dates = DOMAIN groupedPhotos
    /\ \A g \in DOMAIN dates : dates[g] = groupedPhotos[g].key
    /\ \A g, h \in DOMAIN dates :
         g < h => /\ dates[g] # dates[h]
                  /\ FirstSeen(dates[g]) < FirstSeen(dates[h])

\* A rendered gallery of three photos: two completed on the same day at
\* different times, in one group, and one without completed_at, in another.
GroupingReached ==
  /\ rendered
  /\ Len(photos) = 3
  /\ Len(dates) = 2
  /\ photos[1].completed_at # photos[2].completed_at
  /\ Len(groupedPhotos[1].value) = 2
  /\ groupedPhotos[2].key = <<"Invalid Date">>

\* The completed / completed_at pair of a subtasks row.
Pair(st) == <<st.completed, st.completed_at>>

\* The places in `served` of the requests that updated subtask id.
Writers(id) ==
  {k \in DOMAIN served : requests[served[k]].id = id /\ requests[served[k]].status = 200}

\* C13 (state part): whatever requests are still in flight, a row's completed /
\* completed_at pair is the pair in the response of the request that updated the
\* row last, and the pair of its creation when no request has updated it.
LastWriteWins ==
  \A st \in subtasks :
    IF Writers(st.id) = {} THEN Pair(st) = <<0, NULL>>
    ELSE LET last == CHOOSE k \in Writers(st.id) : \A j \in Writers(st.id) : j <= k
         IN /\ requests[served[last]].rows # {}
            /\ \A row \in requests[served[last]].rows : Pair(st) = Pair(row)

\* C13 (step part): the step that serves a request checks ownership and updates
\* in one: it answers 403 and leaves the table alone exactly when the subtask is
\* not the user's in the state the step starts from, and otherwise writes the
\* pair of this request alone (completed from its file and flag, completed_at
\* from its flag and the clock), whatever the row held and whatever else is in
\* flight, leaves the other rows alone and answers with the row.  No other step
\* changes a row that stays in the table.
PatchIsAtomic ==
  /\ \A i \in DOMAIN requests :
       (requests[i].status = 0 /\ requests'[i].status # 0) =>
         LET req == requests[i]
             owned == OwnedSubtask(req.id, req.user)
         IN /\ served' = Append(served, i)
            /\ requests'[i].status = (IF owned = {} THEN 403 ELSE 200)
            /\ owned = {} => subtasks' = subtasks /\ requests'[i].rows = {}
            /\ owned # {} =>
                 LET row == RowOf(subtasks', req.id) IN
                 /\ row.completed =
                      (IF req.hasFile \/ Requested(req.completed) THEN 1 ELSE 0)
                 /\ row.completed_at =
                      (IF Requested(req.completed) THEN <<"iso", now>> ELSE NULL)
                 /\ requests'[i].rows = {row}
                 /\ subtasks' \ {row} = subtasks \ owned
  /\ served' = served =>
       \A st \in subtasks : \A row \in subtasks' : row.id = st.id => row = st

\* C13: PATCH /api/subtasks/:id requests in flight at once, with or without
\* uploads: each request's ownership check and row update are one atomic step,
\* the row holds the completed / completed_at pair written by the request whose
\* update ran last, and never a pair that no single request wrote.
ConcurrentPatchLastWins == [](LastWriteWins) /\ [][PatchIsAtomic]_vars

\* Two requests for the same owned subtask were in flight together and were
\* served in the reverse of the order of arrival, one with an upload and one
\* without; both updated the row, and the row holds what the first to arrive,
\* served last, wrote.
RaceReached ==
  /\ served = <<2, 1>>
  /\ requests[1].id = requests[2].id
  /\ requests[1].status = 200 /\ requests[2].status = 200
  /\ requests[1].hasFile # requests[2].hasFile
  /\ requests[1].rows # requests[2].rows
  /\ \E st \in subtasks :
       /\ st \in requests[1].rows
       /\ Pair(st) # <<0, NULL>>
       /\ \A row \in requests[2].rows : Pair(row) # Pair(st)

\* What the server holds for the client's user: the tasks and, of each, the
\* subtasks with their completed and photo_url values.
ServerView ==
  { [id |-> t.id,
     subtasks |-> { [id |-> st.id, completed |-> (st.completed = 1),
                     photo_url |-> st.photo_url] :
                    st \in {x \in subtasks : x.task_id = t.id} }] :
    t \in {x \in tasks : \E p \in RaceProfiles : x.user_id = p.id} }

\* A subtask of the local list as the screen shows it (an error body shows no
\* id, no tick and no photo; a photo_url that is missing shows no photo).
LocalSubtask(o) ==
  IF HasId(o)
  THEN [id |-> o.id, completed |-> (o.completed = 1),
        photo_url |-> IF "photo_url" \in DOMAIN o THEN o.photo_url ELSE NULL]
  ELSE [id |-> 0, completed |-> FALSE, photo_url |-> NULL]

\* What the client's local list holds.
LocalView ==
  { IF HasId(localTasks[k])
    THEN [id |-> localTasks[k].id,
          subtasks |-> { LocalSubtask(localTasks[k].subtasks[j]) :
                         j \in DOMAIN localTasks[k].subtasks }]
    ELSE [id |-> 0, subtasks |-> {}] :
    k \in DOMAIN localTasks }

\* C15: once every call of addTask, addSubtask, deleteTask and toggleSubtask has
\* received its response and applied it, the local task list holds the same
\* tasks and subtasks, with the same completed and photo_url values, as the
\* server holds for the user.
LocalMatchesServer ==
  (\A i \in DOMAIN calls : calls[i].stage = "applied") => LocalView = ServerView

====
